---- MODULE Spec2Model ----
(***************************************************************************)
(* Model of src/services/cigar_scraper.py (class CigarScraper).           *)
(*                                                                         *)
(* A Python string is modelled as a sequence of atoms.  An atom is a      *)
(* fragment of text (a word, a number, a punctuation mark, one whitespace *)
(* character) chosen so that every pattern the code searches for is a     *)
(* sequence of whole atoms; substring search, lower-casing, splitting and *)
(* the regular expressions of the code are computed on these sequences.   *)
(***************************************************************************)
EXTENDS Integers, Sequences, FiniteSets, TLC

\* Python's None, for values that are strings or None.  The atom is reserved:
\* no text of the model contains it.
None == <<"<None>">>

------------------------------------------------------------------------------
(* Text primitives: str.lower, `in`, str.strip, str.split, re \s and \d.     *)

\* str.lower() on one atom; atoms without upper-case letters are unchanged.
LowerAtom(a) ==
    CASE a = "FAMOUS" -> "famous"
      [] a = "Strength" -> "strength"
      [] a = "Full" -> "full"
      [] a = "Medium" -> "medium"
      [] a = "Mild" -> "mild"
      [] a = "Size" -> "size"
      [] a = "Robusto" -> "robusto"
      [] a = "Toro" -> "toro"
      [] a = "X" -> "x"
      [] a = "Wrapper" -> "wrapper"
      [] a = "Maduro" -> "maduro"
      [] a = "Origin" -> "origin"
      [] a = "Nicaragua" -> "nicaragua"
      [] a = "Cuba" -> "cuba"
      [] a = "Ecuador" -> "ecuador"
      [] a = "By" -> "by"
      [] a = "BY" -> "by"
      [] a = "Padron" -> "padron"
      [] a = "Anniversary" -> "anniversary"
      [] a = "Arturo" -> "arturo"
      [] a = "Fuente" -> "fuente"
      [] a = "Churchill" -> "churchill"
      [] a = "Corona" -> "corona"
      [] a = "Torpedo" -> "torpedo"
      [] a = "Dominican" -> "dominican"
      [] a = "Republic" -> "republic"
      [] a = "Honduras" -> "honduras"
      [] a = "Connecticut" -> "connecticut"
      [] a = "Spec" -> "spec"
      [] a = "Product" -> "product"
      [] OTHER -> a

\* text.lower()
Lower(s) == [i \in DOMAIN s |-> LowerAtom(s[i])]

\* Python's `p in s` for strings p, s.
Contains(s, p) ==
    \E i \in 1..(Len(s) - Len(p) + 1) : SubSeq(s, i, i + Len(p) - 1) = p

\* The characters \s matches (and str.strip / str.split treat as whitespace).
Whitespace == {" ", "\n"}

\* The atoms \d+ matches.
DigitAtoms == {"5", "6", "50", "52"}

\* Greedy run: the last index j >= i-1 such that s[i..j] lies in cls.
SpanEnd(s, i, cls) ==
    CHOOSE j \in (i - 1)..Len(s) :
        /\ \A k \in i..j : s[k] \in cls
        /\ (j = Len(s) \/ s[j + 1] \notin cls)

\* str.strip()
Strip(s) ==
    LET nonws == {i \in DOMAIN s : s[i] \notin Whitespace}
    IN  IF nonws = {} THEN << >>
        ELSE LET a == CHOOSE i \in nonws : \A j \in nonws : i <= j
                 b == CHOOSE i \in nonws : \A j \in nonws : j <= i
             IN  SubSeq(s, a, b)

\* re.sub(r'\s+', ' ', s): every run of whitespace becomes one space.
RECURSIVE CollapseFrom(_, _)
CollapseFrom(s, i) ==
    IF i > Len(s) THEN << >>
    ELSE IF s[i] \in Whitespace
         THEN <<" ">> \o CollapseFrom(s, SpanEnd(s, i, Whitespace) + 1)
         ELSE <<s[i]>> \o CollapseFrom(s, i + 1)

CollapseWhitespace(s) == CollapseFrom(s, 1)

\* str.split(): the maximal whitespace-free pieces, in order.
RECURSIVE WordsFrom(_, _)
WordsFrom(s, i) ==
    IF i > Len(s) THEN << >>
    ELSE IF s[i] \in Whitespace THEN WordsFrom(s, i + 1)
         ELSE LET e == CHOOSE j \in i..Len(s) :
                          /\ \A k \in i..j : s[k] \notin Whitespace
                          /\ (j = Len(s) \/ s[j + 1] \in Whitespace)
              IN  <<SubSeq(s, i, e)>> \o WordsFrom(s, e + 1)

Words(s) == WordsFrom(s, 1)

\* ' '.join(words)
RECURSIVE JoinSpace(_)
JoinSpace(ws) ==
    IF ws = << >> THEN << >>
    ELSE IF Len(ws) = 1 THEN ws[1]
         ELSE ws[1] \o <<" ">> \o JoinSpace(Tail(ws))

\* The least element of a non-empty set of integers.
Least(S) == CHOOSE i \in S : \A j \in S : i <= j

------------------------------------------------------------------------------
(* _clean_text and _extract_brand_and_name.                                  *)

\* _clean_text(text): None for None or '', else the stripped text with
\* whitespace runs collapsed, or None when nothing is left.
CleanText(text) ==
    IF text = None \/ text = << >> THEN None
    ELSE LET t == CollapseWhitespace(Strip(text))
         IN  IF t = << >> THEN None ELSE t

\* SeparatorAt with the pattern compiled case-insensitively (re.I).
SeparatorAtAnyCase(s, i) ==
    LET a == SpanEnd(s, i, Whitespace)
    IN  IF a >= i /\ a + 2 <= Len(s) /\ LowerAtom(s[a + 1]) \in {"-", "by"}
           /\ s[a + 2] \in Whitespace
        THEN <<i, SpanEnd(s, a + 2, Whitespace)>>
        ELSE << >>

\* A match of \s+-\s+ or \s+by\s+ that starts at index i: <<i, j>> with j the
\* last index of the match, or << >>.  The separators are the hyphen and the
\* lower-case word "by" only (the pattern is compiled without re.I).
SeparatorAt(s, i) ==
    LET a == SpanEnd(s, i, Whitespace)
    IN  IF a >= i /\ a + 2 <= Len(s) /\ s[a + 1] \in {"-", "by"}
           /\ s[a + 2] \in Whitespace
        THEN <<i, SpanEnd(s, a + 2, Whitespace)>>
        ELSE << >>

\* re.split(r'\s+-\s+|\s+by\s+', s, maxsplit=1): split at the leftmost match.
SplitOnce(s) ==
    LET starts == {i \in DOMAIN s : SeparatorAt(s, i) # << >>}
    IN  IF starts = {} THEN <<s>>
        ELSE LET m == SeparatorAt(s, Least(starts))
             IN  <<SubSeq(s, 1, m[1] - 1), SubSeq(s, m[2] + 1, Len(s))>>

\* _extract_brand_and_name(full_name) -> <<brand, name>>
ExtractBrandAndName(full_name) ==
    IF full_name = None \/ full_name = << >> THEN <<None, None>>
    ELSE LET parts == SplitOnce(full_name)
             words == Words(full_name)
         IN  IF Len(parts) = 2
             THEN <<CleanText(parts[1]), CleanText(parts[2])>>
             ELSE IF Len(words) > 1
                  THEN <<CleanText(words[1]), CleanText(JoinSpace(Tail(words)))>>
                  ELSE <<None, CleanText(full_name)>>

------------------------------------------------------------------------------
(* The pattern library: the literal lists and regular expressions of the     *)
(* extractors.                                                               *)

\* ['Mild', 'Medium', 'Full']
SiteStrengths == << <<"Mild">>, <<"Medium">>, <<"Full">> >>

\* GenericStrengths with the compound level appended instead of inserted.
GenericStrengthsAppended ==
    << <<"Mild">>, <<"Medium">>, <<"Full">>, <<"Medium", "-", "Full">> >>

\* ['Mild', 'Medium-Full', 'Medium', 'Full']
GenericStrengths ==
    << <<"Mild">>, <<"Medium", "-", "Full">>, <<"Medium">>, <<"Full">> >>

\* ['Robusto', 'Churchill', 'Toro', 'Corona', 'Torpedo']
SizeNames ==
    << <<"Robusto">>, <<"Churchill">>, <<"Toro">>, <<"Corona">>, <<"Torpedo">> >>

\* ['Nicaragua', 'Dominican Republic', 'Honduras', 'Cuba', 'Ecuador', 'Connecticut']
ReviewOrigins ==
    << <<"Nicaragua">>, <<"Dominican", " ", "Republic">>, <<"Honduras">>,
       <<"Cuba">>, <<"Ecuador">>, <<"Connecticut">> >>

\* ['Nicaragua', 'Dominican Republic', 'Honduras', 'Cuba']
RetailerOrigins ==
    << <<"Nicaragua">>, <<"Dominican", " ", "Republic">>, <<"Honduras">>,
       <<"Cuba">> >>

\* for item in list: if item.lower() in text: ...; break
\* The index of the first entry whose lower-cased form occurs in text, or 0.
FirstListed(list, text) ==
    LET hits == {i \in DOMAIN list : Contains(text, Lower(list[i]))}
    IN  IF hits = {} THEN 0 ELSE Least(hits)

\* A match of (\d+\.?\d*)\s*x\s*(\d+) starting at index i: <<group1, group2>>,
\* or << >>.  Every quantifier is greedy and none can give characters back to
\* let the rest match, so the greedy spans decide the match.
SizeMatchAt(s, i) ==
    LET a == SpanEnd(s, i, DigitAtoms)
        b == IF a < Len(s) /\ s[a + 1] = "." THEN a + 1 ELSE a
        c == SpanEnd(s, b + 1, DigitAtoms)
        d == SpanEnd(s, c + 1, Whitespace)
        e == SpanEnd(s, d + 2, Whitespace)
        f == SpanEnd(s, e + 1, DigitAtoms)
    IN  IF a >= i /\ d < Len(s) /\ s[d + 1] = "x" /\ f >= e + 1
        THEN <<SubSeq(s, i, c), SubSeq(s, e + 1, f)>>
        ELSE << >>

\* re.search(r'(\d+\.?\d*)\s*x\s*(\d+)', s): the leftmost match, or << >>.
SizeSearch(s) ==
    LET starts == {i \in DOMAIN s : SizeMatchAt(s, i) # << >>}
    IN  IF starts = {} THEN << >> ELSE SizeMatchAt(s, Least(starts))

\* The characters of [:\s] and the characters excluded by [^,\n].
LabelSeparators == Whitespace \cup {":"}
ValueStops == {",", "\n"}

\* A match of wrapper[:\s]+([^,\n]+) at index i of a lower-cased text: group 1,
\* or << >>.  [:\s]+ is greedy but gives characters back until the group can
\* start; the group then runs to the next comma or newline.
WrapperMatchAt(s, i) ==
    LET m == SpanEnd(s, i + 1, LabelSeparators)
        ends == {k \in (i + 1)..m : k + 1 <= Len(s) /\ s[k + 1] \notin ValueStops}
    IN  IF s[i] # "wrapper" \/ ends = {} THEN << >>
        ELSE LET k == CHOOSE e \in ends : \A o \in ends : o <= e
                 stop == CHOOSE j \in (k + 1)..Len(s) :
                             /\ \A q \in (k + 1)..j : s[q] \notin ValueStops
                             /\ (j = Len(s) \/ s[j + 1] \in ValueStops)
             IN  SubSeq(s, k + 1, stop)

\* re.search(r'wrapper[:\s]+([^,\n]+)', text, re.I).group(1), or << >>.
WrapperSearch(s) ==
    LET starts == {i \in DOMAIN s : WrapperMatchAt(s, i) # << >>}
    IN  IF starts = {} THEN << >> ELSE WrapperMatchAt(s, Least(starts))

\* re.sub(r'wrapper[:\s]*', '', text, flags=re.I): every occurrence of the
\* word, in any letter case, is removed with the separators that follow it.
RECURSIVE StripWrapperFrom(_, _)
StripWrapperFrom(s, i) ==
    IF i > Len(s) THEN << >>
    ELSE IF LowerAtom(s[i]) = "wrapper"
         THEN StripWrapperFrom(s, SpanEnd(s, i + 1, LabelSeparators) + 1)
         ELSE <<s[i]>> \o StripWrapperFrom(s, i + 1)

StripWrapperLabel(s) == StripWrapperFrom(s, 1)

------------------------------------------------------------------------------
(* urlparse(url).netloc and the routing of scrape.                           *)

\* Atoms made only of the characters a URL scheme may hold (letters, digits,
\* '+', '-', '.'), and those among them that start with a letter.
SchemeAtoms ==
    {"famous", "FAMOUS", "cigaraficionado", ".com", "-smoke", "cigars",
     "international", "jr", "example", "www."}
LetterFirstAtoms == SchemeAtoms \ {".com", "-smoke"}

\* Atoms that contain the character ':'.
ColonAtoms == {"http:"}

\* The characters that end the network location.
NetlocStops == {"/", "?", "#"}

\* urlsplit's scheme step: the text after "scheme:" when the text up to the
\* first ':' is a scheme, else the whole url.
AfterScheme(u) ==
    LET colons == {i \in DOMAIN u : u[i] \in ColonAtoms}
    IN  IF colons = {} THEN u
        ELSE LET k == Least(colons)
             IN  IF /\ u[1] \in LetterFirstAtoms \cup ColonAtoms
                    /\ \A j \in 1..(k - 1) : u[j] \in SchemeAtoms
                 THEN SubSeq(u, k + 1, Len(u))
                 ELSE u

\* urlparse(url).netloc: what follows a leading '//' up to the first of
\* '/', '?', '#'; empty when the rest does not start with '//'.
Netloc(u) ==
    LET r == AfterScheme(u)
    IN  IF r = << >> \/ r[1] # "//" THEN << >>
        ELSE LET stops == {i \in 2..Len(r) : r[i] \in NetlocStops}
                 e == IF stops = {} THEN Len(r) ELSE Least(stops) - 1
             IN  SubSeq(r, 2, e)

\* urlparse raises ValueError("Invalid IPv6 URL") when the network location
\* holds one of '[' and ']' without the other.
UrlParseFails(u) ==
    LET n == Netloc(u)
        open == \E i \in DOMAIN n : n[i] = "["
        close == \E i \in DOMAIN n : n[i] = "]"
    IN  open # close

\* The if/elif chain of scrape over domain = parsed_url.netloc.lower().
Route(domain) ==
    IF Contains(domain, <<"cigaraficionado", ".com">>) THEN "ReviewSite"
    ELSE IF \/ Contains(domain, <<"famous", "-smoke", ".com">>)
            \/ Contains(domain, <<"famous">>) THEN "RetailerA"
    ELSE IF \/ Contains(domain, <<"cigars", "international", ".com">>)
            \/ Contains(domain, <<"cigars", " ", "international">>) THEN "RetailerB"
    ELSE IF \/ Contains(domain, <<"jr", "cigars", ".com">>)
            \/ Contains(domain, <<"jr", " ", "cigars">>) THEN "RetailerC"
    ELSE "Generic"

------------------------------------------------------------------------------
(* The parsed document (BeautifulSoup) and the queries the extractors make.  *)
(* A document is the sequence of its elements in document order; an element  *)
(* has a tag, a class attribute (empty when it has none) and its text.       *)

Element(tag, class, text) == [tag |-> tag, class |-> class, text |-> text]

\* class_=re.compile('a|b|c', re.I): the class attribute holds one of the
\* words, in any letter case.  An element without a class never matches.
ClassHasAny(e, words) ==
    e.class # << >> /\ \E w \in words : Contains(Lower(e.class), <<w>>)

\* class_=re.compile('product.*title', re.I)
ClassProductTitle(e) ==
    LET c == Lower(e.class)
    IN  \E i, j \in DOMAIN c : i < j /\ c[i] = "product" /\ c[j] = "title"

\* soup.find(...): the first of the indexes of the matching elements, or 0.
FindFirst(hits) == IF hits = {} THEN 0 ELSE Least(hits)

IsH1(e) == e.tag = "h1"
IsEntryTitleH1(e) == e.tag = "h1" /\ e.class = <<"entry", "-", "title">>
IsProductH1(e) == e.tag = "h1" /\ ClassHasAny(e, {"product", "title"})

\* `soup.find(A) or soup.find(B)`: the index of the title element, or 0.
TitleIndex(v, doc) ==
    LET h1 == FindFirst({i \in DOMAIN doc : IsH1(doc[i])})
        entry == FindFirst({i \in DOMAIN doc : IsEntryTitleH1(doc[i])})
        product == FindFirst({i \in DOMAIN doc : IsProductH1(doc[i])})
        titled == FindFirst({i \in DOMAIN doc : ClassProductTitle(doc[i])})
        Or(a, b) == IF a # 0 THEN a ELSE b
    IN  CASE v = "ReviewSite" -> Or(entry, h1)
          [] v = "RetailerA" -> Or(product, h1)
          [] v = "RetailerB" -> Or(h1, titled)
          [] OTHER -> h1

IsReviewDetail(e) ==
    e.tag \in {"p", "div"} /\ ClassHasAny(e, {"detail", "spec", "info"})
IsFamousSpec(e) ==
    e.tag \in {"li", "div", "span"} /\ ClassHasAny(e, {"spec", "attribute", "detail"})
IsInternationalDetail(e) ==
    e.tag \in {"dt", "dd", "li"} /\ ClassHasAny(e, {"spec", "detail", "attribute"})

\* soup.find_all(tags, class_=...): the matching elements, in document order.
FindDetails(v, doc) ==
    CASE v = "ReviewSite" -> SelectSeq(doc, IsReviewDetail)
      [] v = "RetailerA" -> SelectSeq(doc, IsFamousSpec)
      [] v = "RetailerB" -> SelectSeq(doc, IsInternationalDetail)
      [] OTHER -> << >>

\* soup.get_text(): the texts of all elements, concatenated in document order.
RECURSIVE DocumentText(_)
DocumentText(doc) ==
    IF doc = << >> THEN << >> ELSE Head(doc).text \o DocumentText(Tail(doc))

------------------------------------------------------------------------------
(* The result dictionary and the body of each extractor's scan loop.         *)

\* result[k] = v
Put(r, k, v) == [x \in DOMAIN r \cup {k} |-> IF x = k THEN v ELSE r[x]]

\* The title block shared by all extractors, given the title element's text:
\* full_name, (brand, name), result['brand'], result['name'] = name or full_name.
TitleFields(result, text) ==
    LET full_name == CleanText(text)
        bn == ExtractBrandAndName(full_name)
    IN  Put(Put(result, "brand", bn[1]), "name",
            IF bn[2] # None /\ bn[2] # << >> THEN bn[2] ELSE full_name)

\* ScanReviewDetail with the named sizes looked up whether or not the numeric
\* pattern matched (the `else` dropped).
ScanReviewDetailNamedAlways(result, raw) ==
    LET text == Lower(raw)
        size_match == SizeSearch(text)
        sz == FirstListed(SizeNames, text)
        st == FirstListed(SiteStrengths, text)
        og == FirstListed(ReviewOrigins, text)
        wrapper_match == WrapperSearch(text)
        keyword == Contains(text, <<"size">>) \/ Contains(text, <<"length">>)
        r0 == IF keyword /\ size_match # << >>
              THEN Put(Put(result, "length", size_match[1]),
                       "ring_gauge", size_match[2])
              ELSE result
        r1 == IF keyword /\ sz # 0 THEN Put(r0, "size", SizeNames[sz]) ELSE r0
        r2 == IF Contains(text, <<"strength">>) /\ st # 0
              THEN Put(r1, "strength", SiteStrengths[st]) ELSE r1
        r3 == IF (Contains(text, <<"country">>) \/ Contains(text, <<"origin">>))
                 /\ og # 0
              THEN Put(r2, "origin", ReviewOrigins[og]) ELSE r2
    IN  IF Contains(text, <<"wrapper">>) /\ wrapper_match # << >>
        THEN Put(r3, "wrapper", CleanText(wrapper_match)) ELSE r3

\* One iteration of the loop of _scrape_cigar_aficionado over `details`.
ScanReviewDetail(result, raw) ==
    LET text == Lower(raw)
        size_match == SizeSearch(text)
        sz == FirstListed(SizeNames, text)
        st == FirstListed(SiteStrengths, text)
        og == FirstListed(ReviewOrigins, text)
        wrapper_match == WrapperSearch(text)
        r1 == IF Contains(text, <<"size">>) \/ Contains(text, <<"length">>)
              THEN IF size_match # << >>
                   THEN Put(Put(result, "length", size_match[1]),
                            "ring_gauge", size_match[2])
                   ELSE IF sz # 0 THEN Put(result, "size", SizeNames[sz])
                        ELSE result
              ELSE result
        r2 == IF Contains(text, <<"strength">>) /\ st # 0
              THEN Put(r1, "strength", SiteStrengths[st]) ELSE r1
        r3 == IF (Contains(text, <<"country">>) \/ Contains(text, <<"origin">>))
                 /\ og # 0
              THEN Put(r2, "origin", ReviewOrigins[og]) ELSE r2
    IN  IF Contains(text, <<"wrapper">>) /\ wrapper_match # << >>
        THEN Put(r3, "wrapper", CleanText(wrapper_match)) ELSE r3

\* One iteration of the loop of _scrape_famous_smoke over `specs`: the
\* keywords are tested on label = text.lower(), the values on text itself.
ScanFamousSpec(result, text) ==
    LET label == Lower(text)
        st == FirstListed(SiteStrengths, text)
        size_match == SizeSearch(text)
        og == FirstListed(RetailerOrigins, text)
        r1 == IF Contains(label, <<"strength">>) /\ st # 0
              THEN Put(result, "strength", SiteStrengths[st]) ELSE result
        r2 == IF (Contains(label, <<"size">>) \/ Contains(label, <<"length">>))
                 /\ size_match # << >>
              THEN Put(Put(r1, "length", size_match[1]), "ring_gauge", size_match[2])
              ELSE r1
        r3 == IF (Contains(label, <<"origin">>) \/ Contains(label, <<"country">>))
                 /\ og # 0
              THEN Put(r2, "origin", RetailerOrigins[og]) ELSE r2
    IN  IF Contains(label, <<"wrapper">>)
        THEN Put(r3, "wrapper", CleanText(StripWrapperLabel(text))) ELSE r3

\* ScanInternationalDetail reading the strength from the label element itself.
ScanInternationalSameElement(result, dets, i) ==
    LET text == Lower(dets[i].text)
        st == FirstListed(SiteStrengths, text)
    IN  IF Contains(text, <<"strength">>) /\ st # 0
        THEN Put(result, "strength", SiteStrengths[st])
        ELSE result

\* One iteration (index i) of the loop of _scrape_cigars_international.
ScanInternationalDetail(result, dets, i) ==
    LET text == Lower(dets[i].text)
    IN  IF Contains(text, <<"strength">>) /\ i + 1 <= Len(dets)
        THEN LET st == FirstListed(SiteStrengths, Lower(dets[i + 1].text))
             IN  IF st # 0 THEN Put(result, "strength", SiteStrengths[st])
                 ELSE result
        ELSE result

\* The loop body of the routed extractor for details[i].
ScanOne(v, result, dets, i) ==
    CASE v = "ReviewSite" -> ScanReviewDetail(result, dets[i].text)
      [] v = "RetailerA" -> ScanFamousSpec(result, dets[i].text)
      [] v = "RetailerB" -> ScanInternationalDetail(result, dets, i)
      [] OTHER -> result

\* The whole-text scan of _scrape_generic.
ScanGenericText(result, text_content) ==
    LET size_match == SizeSearch(text_content)
        st == FirstListed(GenericStrengths, Lower(text_content))
        r1 == IF size_match # << >>
              THEN Put(Put(result, "length", size_match[1]),
                       "ring_gauge", size_match[2])
              ELSE result
    IN  IF st # 0 THEN Put(r1, "strength", GenericStrengths[st]) ELSE r1

------------------------------------------------------------------------------
(* One call of scrape(url).                                                  *)

VARIABLES
    url,        \* the argument of scrape
    page,       \* what the site serves for url: the markup, << >> for an empty body
    pc,         \* where the call is
    variant,    \* the extractor scrape called, "none" before routing
    fetches,    \* the number of requests.get calls made
    html,       \* the value _fetch_html returned: the markup, or << >> (None, '')
    soup,       \* the parsed document, << >> before BeautifulSoup(html)
    details,    \* the candidate elements find_all returned
    idx,        \* how many candidates the loop has processed
    result,     \* the extractor's result dictionary
    raised,     \* whether an exception reached the handler of scrape
    outcome,    \* "running", then "none" (None returned) or "record"
    ret         \* the dictionary returned when outcome = "record"

vars == <<url, page, pc, variant, fetches, html, soup, details, idx, result,
          raised, outcome, ret>>

\* Bounds of the explored inputs.
MaxHostWords == 2
MaxTitleAtoms == 5
MaxElements == 2

\* All sequences over S of length at most n.
SeqsUpTo(S, n) == UNION {[1..k -> S] : k \in 0..n}

\* The concatenation of a sequence of sequences.
RECURSIVE Flatten(_)
Flatten(ss) == IF ss = << >> THEN << >> ELSE Head(ss) \o Flatten(Tail(ss))

\* The state scrape starts in, for a given argument and served page.
Start(u, p) ==
    /\ url = u
    /\ page = p
    /\ pc = "start"
    /\ variant = "none"
    /\ fetches = 0
    /\ html = << >>
    /\ soup = << >>
    /\ details = << >>
    /\ idx = 0
    /\ result = << >>
    /\ raised = FALSE
    /\ outcome = "running"
    /\ ret = << >>

\* Scrape degrading to the generic extractor when urlparse raises.
ScrapeDegrading ==
    /\ pc = "start"
    /\ variant' = IF UrlParseFails(url) THEN "Generic"
                  ELSE Route(Lower(Netloc(url)))
    /\ pc' = "fetch"
    /\ UNCHANGED <<url, page, fetches, html, soup, details, idx, result, raised,
                   outcome, ret>>

\* scrape, lines 37-56: parse the url and call the extractor of its domain;
\* a ValueError of urlparse is caught by the handler, which returns None.
Scrape ==
    /\ pc = "start"
    /\ IF UrlParseFails(url)
       THEN /\ raised' = TRUE
            /\ outcome' = "none"
            /\ pc' = "done"
            /\ UNCHANGED variant
       ELSE /\ variant' = Route(Lower(Netloc(url)))
            /\ pc' = "fetch"
            /\ UNCHANGED <<raised, outcome>>
    /\ UNCHANGED <<url, page, fetches, html, soup, details, idx, result, ret>>

\* FetchHtml trying once more after a failed request.
FetchHtmlRetrying ==
    /\ pc = "fetch"
    /\ fetches' = fetches + 1
    /\ \E ok \in BOOLEAN :
          /\ html' = IF ok THEN page ELSE << >>
          /\ IF html' # << >>
             THEN pc' = "parse" /\ UNCHANGED outcome
             ELSE IF ~ok /\ fetches = 0
                  THEN pc' = "fetch" /\ UNCHANGED outcome
                  ELSE pc' = "done" /\ outcome' = "none"
    /\ UNCHANGED <<url, page, variant, soup, details, idx, result, raised, ret>>

\* _fetch_html, lines 58-66, and its caller's `if not html: return None`.
\* The request succeeds or raises (timeout, network error, raise_for_status);
\* a failure and an empty body both end the call with None.
FetchHtml ==
    /\ pc = "fetch"
    /\ fetches' = fetches + 1
    /\ \E ok \in BOOLEAN :
          /\ html' = IF ok THEN page ELSE << >>
          /\ IF html' # << >>
             THEN pc' = "parse" /\ UNCHANGED outcome
             ELSE pc' = "done" /\ outcome' = "none"
    /\ UNCHANGED <<url, page, variant, soup, details, idx, result, raised, ret>>

\* soup = BeautifulSoup(html, 'html.parser'); result = {}
MakeSoup ==
    /\ pc = "parse"
    /\ soup' = html
    /\ result' = << >>
    /\ pc' = "title"
    /\ UNCHANGED <<url, page, variant, fetches, html, details, idx, raised,
                   outcome, ret>>

\* The title block of the extractor: find the title element and, when there is
\* one, set result['brand'] and result['name'].
ResolveTitle ==
    /\ pc = "title"
    /\ LET t == TitleIndex(variant, soup)
       IN  result' = IF t # 0 THEN TitleFields(result, soup[t].text) ELSE result
    /\ pc' = "find"
    /\ UNCHANGED <<url, page, variant, fetches, html, soup, details, idx, raised,
                   outcome, ret>>

\* details = soup.find_all(...) of the extractor, then where it goes next: the
\* loop, the whole-text scan of the generic extractor, or the return.
FindCandidates ==
    /\ pc = "find"
    /\ details' = FindDetails(variant, soup)
    /\ idx' = 0
    /\ pc' = IF variant = "Generic" THEN "text"
             ELSE IF details' # << >> THEN "scan" ELSE "return"
    /\ UNCHANGED <<url, page, variant, fetches, html, soup, result, raised,
                   outcome, ret>>

\* One iteration of `for detail in details`.
ScanDetail ==
    /\ pc = "scan"
    /\ idx < Len(details)
    /\ idx' = idx + 1
    /\ result' = ScanOne(variant, result, details, idx + 1)
    /\ pc' = IF idx' = Len(details) THEN "return" ELSE "scan"
    /\ UNCHANGED <<url, page, variant, fetches, html, soup, details, raised,
                   outcome, ret>>

\* _scrape_generic, lines 263-276.
ScanText ==
    /\ pc = "text"
    /\ result' = ScanGenericText(result, DocumentText(soup))
    /\ pc' = "return"
    /\ UNCHANGED <<url, page, variant, fetches, html, soup, details, idx, raised,
                   outcome, ret>>

\* return result if result else None
Return ==
    /\ pc = "return"
    /\ IF result # << >>
       THEN outcome' = "record" /\ ret' = result
       ELSE outcome' = "none" /\ UNCHANGED ret
    /\ pc' = "done"
    /\ UNCHANGED <<url, page, variant, fetches, html, soup, details, idx, result,
                   raised>>

\* `except Exception` of scrape, lines 54-56: an exception raised while the
\* extractor parses or scans unwinds the extractor (its locals are gone) and
\* scrape returns None.
HandleException ==
    /\ pc \in {"parse", "title", "find", "scan", "text", "return"}
    /\ raised' = TRUE
    /\ outcome' = "none"
    /\ pc' = "done"
    /\ soup' = << >>
    /\ details' = << >>
    /\ idx' = 0
    /\ result' = << >>
    /\ UNCHANGED <<url, page, variant, fetches, html, ret>>

Next ==
    \/ Scrape
    \/ FetchHtml
    \/ MakeSoup
    \/ ResolveTitle
    \/ FindCandidates
    \/ ScanDetail
    \/ ScanText
    \/ Return
    \/ HandleException

------------------------------------------------------------------------------
(* The inputs explored.                                                      *)

\* Pieces of network locations.
HostWords ==
    { <<"cigaraficionado", ".com">>,
      <<"www.", "famous", "-smoke", ".com">>,
      <<"FAMOUS">>,
      <<"cigars", "international", ".com">>,
      <<"cigars", " ", "international">>,
      <<"jr", "cigars", ".com">>,
      <<"jr", " ", "cigars">>,
      <<"example", ".com">>,
      <<"@">>,
      <<"[">> }

\* What may follow the network location: nothing, a path, a query.
UrlTails ==
    { << >>,
      <<"/", "famous">>,
      <<"?", "cigaraficionado", ".com">> }

\* URLs: an optional scheme, an optional '//', host words, a tail.
Urls ==
    { sch \o sl \o Flatten(ws) \o tl :
        sch \in {<< >>, <<"http:">>}, sl \in {<< >>, <<"//">>},
        ws \in SeqsUpTo(HostWords, MaxHostWords), tl \in UrlTails }

\* One URL routed to each extractor, and one urlparse rejects.
SiteUrl(v) ==
    CASE v = "ReviewSite" -> <<"http:", "//", "cigaraficionado", ".com", "/", "x">>
      [] v = "RetailerA" -> <<"http:", "//", "www.", "famous", "-smoke", ".com", "/", "x">>
      [] v = "RetailerB" -> <<"http:", "//", "cigars", "international", ".com", "/", "x">>
      [] v = "RetailerC" -> <<"http:", "//", "jr", "cigars", ".com", "/", "x">>
      [] v = "Generic" -> <<"http:", "//", "example", ".com", "/", "x">>
      [] OTHER -> <<"http:", "//", "[", "example", ".com">>

Variants == {"ReviewSite", "RetailerA", "RetailerB", "RetailerC", "Generic"}

H1(text) == Element("h1", << >>, text)
Div(text) == Element("div", <<"spec">>, text)

\* A page with a title and two candidates every extractor with a loop selects.
SamplePage ==
    << H1(<<"Padron", " ", "-", " ", "1964", " ", "Anniversary">>),
       Element("li", <<"Spec">>, <<"Strength", ":">>),
       Element("li", <<"detail">>, <<"Full", ",", " ", "size", " ", "6", " ", "x", " ", "52">>) >>

\* A few calls that together take every step: each extractor on the sample
\* page, an empty body, and a URL urlparse rejects.
BasicInputs ==
    {<<SiteUrl(v), p>> : v \in Variants \cup {"rejected"}, p \in {SamplePage, << >>}}

\* Routing: every URL, on the sample page.
RouteInputs == {<<u, SamplePage>> : u \in Urls}

\* Raw title texts.
TitleAtoms == {"Padron", " ", "-", "by", "BY"}
TitleTexts ==
    SeqsUpTo(TitleAtoms, MaxTitleAtoms)
    \cup { <<"Padron", " ", "by", " ", "Fuente", " ", "-", " ", "1964">>,
           <<"Arturo", " ", "-", " ", "Fuente", " ", "by", " ", "Padron">>,
           <<"Padron", " ", "By", " ", "Arturo", " ", "Fuente">>,
           <<"Arturo", " ", "\n", "Fuente", " ", " ", "Hemingway">>,
           <<"by", " ", "-", " ", "-", " ", "by", " ", "by">> }

\* Title splitting: a page that is one heading, on the title-only extractor.
TitleInputs == {<<SiteUrl("RetailerC"), <<H1(t)>> >> : t \in TitleTexts}

\* Texts of candidate elements for the review-site and first retailer
\* extractors: each attribute with and without its keyword, with and without
\* a value, in several letter cases, alone and together.
DetailTexts ==
    { <<"Size", ":", " ", "6", " ", "x", " ", "52">>,
      <<"size", " ", "5", " ", "X", " ", "50">>,
      <<"Size", ":", " ", "Robusto">>,
      <<"size", ":", " ", "toro">>,
      <<"Size", ":", " ", "Robusto", ",", " ", "6", ".", "5", "x", "52">>,
      <<"Size", ":">>,
      <<"6", " ", "x", " ", "52">>,
      <<"Strength", ":", " ", "Full">>,
      <<"strength", ":", " ", "medium", "-", "full">>,
      <<"Strength", ":", " ", "Medium", " ", "Full">>,
      <<"Strength", ":">>,
      <<"Mild">>,
      <<"Wrapper", ":", " ", "Maduro">>,
      <<"Wrapper", ":">>,
      <<"wrapper", ":", " ">>,
      <<"Wrapper", ":", " ", "Ecuador", ",", " ", "Origin", ":", " ", "Nicaragua">>,
      <<"Origin", ":", " ", "Cuba">>,
      <<"origin", ":", " ", "nicaragua">>,
      <<"Strength", ":", " ", "mild", ",", " ", "size", " ", "toro", "\n",
        "wrapper", " ", "maduro">> }

\* Candidate elements: the texts in an element both extractors select, and a
\* few elements only one of them, or neither, selects.
DetailElements ==
    {Div(t) : t \in DetailTexts}
    \cup { Element("p", <<"info">>, <<"Strength", ":", " ", "Mild">>),
           Element("span", <<"attribute">>, <<"strength", ":", " ", "mild">>),
           Element("div", << >>, <<"Strength", ":", " ", "Full">>) }

\* Headings: none, a single word, only whitespace, brand and name.
Headings ==
    { << >>, <<H1(<<"Padron">>)>>, <<H1(<<" ", "\n">>)>>,
      <<H1(<<"Padron", " ", "-", " ", "1964">>)>> }

\* Attribute scans: up to MaxElements candidates, on the two extractors that
\* scan the text of each candidate; and each heading before one candidate.
ScanInputs ==
    {<<SiteUrl(v), p>> :
        v \in {"ReviewSite", "RetailerA"}, p \in SeqsUpTo(DetailElements, MaxElements)}
    \cup {<<SiteUrl(v), h \o <<e>> >> :
            v \in {"ReviewSite", "RetailerA"}, h \in Headings, e \in DetailElements}

\* Label and value elements for the second retailer's adjacent-element scan.
AdjacentElements ==
    { Element("dt", <<"spec">>, <<"Strength">>),
      Element("dd", <<"spec">>, <<"Full">>),
      Element("dt", <<"Detail">>, <<"Strength", ":", " ", "Medium">>),
      Element("li", <<"attribute">>, <<"mild">>),
      Element("dd", <<"spec">>, <<"6", " ", "x", " ", "52">>),
      Element("dd", << >>, <<"Mild">>) }

AdjacentInputs ==
    {<<SiteUrl("RetailerB"), h \o p>> :
        h \in {<< >>, <<H1(<<"Padron">>)>>},
        p \in SeqsUpTo(AdjacentElements, MaxElements + 1)}

\* Elements of pages for the generic extractor's whole-text scan.
GenericElements ==
    { H1(<<"Padron", " ", "Medium">>),
      Element("p", << >>, <<"Medium", "-", "Full">>),
      Element("p", << >>, <<"-", "full">>),
      Element("div", <<"spec">>, <<"Strength", ":", " ", "Full">>),
      Element("span", << >>, <<" ", "mild">>),
      Element("p", << >>, <<"5", " ", "x", " ", "50">>),
      Element("p", << >>, <<"flavor">>) }

GenericInputs ==
    {<<SiteUrl("Generic"), p>> : p \in SeqsUpTo(GenericElements, MaxElements + 1)}

InitFrom(inputs) == \E i \in inputs : Start(i[1], i[2])

\* The attribute scans of all extractors.
Init == InitFrom(BasicInputs \cup ScanInputs \cup AdjacentInputs \cup GenericInputs)
Spec == Init /\ [][Next]_vars

\* Routing and failures.
InitRoute == InitFrom(BasicInputs \cup RouteInputs)
SpecRoute == InitRoute /\ [][Next]_vars

\* Title splitting.
InitTitle == InitFrom(BasicInputs \cup TitleInputs)
SpecTitle == InitTitle /\ [][Next]_vars

------------------------------------------------------------------------------
(* Properties.                                                               *)

\* The greatest element of a non-empty set of integers.
Greatest(S) == CHOOSE i \in S : \A j \in S : j <= i

\* The host component of a URL: its network location without the userinfo
\* ("user@") that may precede the host.
UrlHost(u) ==
    LET n == Netloc(u)
        ats == {i \in DOMAIN n : n[i] = "@"}
    IN  IF ats = {} THEN n ELSE SubSeq(n, Greatest(ats) + 1, Len(n))

\* The routing table as the specification words it: rules in priority order,
\* each an extractor and the substrings that select it.
RoutingRules ==
    << [variant |-> "ReviewSite", any |-> {<<"cigaraficionado", ".com">>}],
       [variant |-> "RetailerA",
        any |-> {<<"famous", "-smoke", ".com">>, <<"famous">>}],
       [variant |-> "RetailerB",
        any |-> {<<"cigars", "international", ".com">>,
                 <<"cigars", " ", "international">>}],
       [variant |-> "RetailerC",
        any |-> {<<"jr", "cigars", ".com">>, <<"jr", " ", "cigars">>}] >>

\* The extractor of the first rule one of whose substrings occurs in where.
FirstRule(where) ==
    LET hits == {i \in DOMAIN RoutingRules :
                    \E p \in RoutingRules[i].any : Contains(where, p)}
    IN  IF hits = {} THEN "Generic" ELSE RoutingRules[Least(hits)].variant

\* C1: for every URL the parser accepts, the extractor scrape calls is the one
\* of the first routing rule that matches the lower-cased host of the URL, and
\* Generic when none matches; nothing but the host decides.
C1_RoutedByHost ==
    (pc # "start" /\ ~UrlParseFails(url))
        => variant = FirstRule(Lower(UrlHost(url)))

\* C2 as stated: when the URL parser fails on the URL, the call still runs the
\* Generic extractor.
C2_ParseFailureRunsGeneric ==
    (UrlParseFails(url) /\ pc = "done") => variant = "Generic"

\* C2 amended: when the URL parser fails on the URL, scrape raises nothing,
\* calls no extractor, fetches nothing and returns None.
C2_ParseFailureReturnsNone ==
    (UrlParseFails(url) /\ pc # "start")
        => /\ pc = "done"
           /\ outcome = "none"
           /\ raised
           /\ variant = "none"
           /\ fetches = 0

C2_Witness == UrlParseFails(url) /\ pc = "done" /\ outcome = "none"

\* C3: a call fetches at most once; after a failed fetch it has returned None
\* with no document parsed and no candidate scanned; and a call in which an
\* exception was raised has returned None.
C3_OneFetchFailuresAbsent ==
    /\ fetches <= 1
    /\ (fetches = 1 /\ html = << >> /\ pc # "fetch")
          => /\ pc = "done"
             /\ outcome = "none"
             /\ soup = << >>
             /\ idx = 0
             /\ result = << >>
    /\ raised => (pc = "done" /\ outcome = "none" /\ ret = << >>)
    /\ outcome \in {"running", "none", "record"}
    /\ (pc = "done") = (outcome # "running")

C3_Witness ==
    /\ page # << >>
    /\ fetches = 1
    /\ html = << >>
    /\ pc = "done"
    /\ outcome = "none"

\* C4: a returned record has at least one key and every key maps to a
\* non-empty normalized string, never to None.
C4_RecordValuesPresent ==
    outcome = "record"
        => /\ DOMAIN ret # {}
           /\ \A k \in DOMAIN ret :
                 ret[k] # None /\ ret[k] # << >> /\ CleanText(ret[k]) = ret[k]

\* Whether candidate text t, with a size or length keyword, holds a numeric
\* "L x RG" token; both are read in lower case by the review-site extractor.
HasSizeKeyword(t) ==
    Contains(Lower(t), <<"size">>) \/ Contains(Lower(t), <<"length">>)
HasNumericSize(t) == SizeSearch(Lower(t)) # << >>

\* C5 as stated: no record holds both `size` and `length`.
C5_SizeExcludesLength ==
    ~({"size", "length"} \subseteq DOMAIN result)

\* C5 amended: `size` and the numeric pair exclude each other per candidate,
\* not per record.  `size` is only ever set by the review-site extractor, from
\* a scanned candidate with a size keyword and no numeric token; the numeric
\* pair is set together; so a record holds both only when two different
\* candidates produced them.
C5_SizeOnlyWithoutNumericInCandidate ==
    LET named == {j \in 1..idx : /\ HasSizeKeyword(details[j].text)
                                 /\ ~HasNumericSize(details[j].text)}
        numeric == {j \in 1..idx : HasNumericSize(details[j].text)}
    IN  /\ ("length" \in DOMAIN result) = ("ring_gauge" \in DOMAIN result)
        /\ "size" \in DOMAIN result
              => /\ variant = "ReviewSite"
                 /\ \E j \in named :
                       Contains(Lower(details[j].text), Lower(result["size"]))
        /\ ({"size", "length"} \subseteq DOMAIN result /\ variant # "Generic")
              => \E j \in named, k \in numeric : j # k

C5_Witness ==
    /\ outcome = "record"
    /\ {"size", "length"} \subseteq DOMAIN ret
    /\ idx = 2

\* The title the extractor cleaned: the text of its title element, when the
\* title block has run and found one.
TitleResolved ==
    pc \in {"find", "scan", "text", "return"} /\ TitleIndex(variant, soup) # 0
ResolvedTitle == CleanText(soup[TitleIndex(variant, soup)].text)

\* Whether x is the separator ' - ' or ' by ', the latter in any letter case
\* when anyCase, in lower case only otherwise.
IsSeparator(x, anyCase) ==
    \/ x = <<" ", "-", " ">>
    \/ (IF anyCase THEN Lower(x) ELSE x) = <<" ", "by", " ">>

\* The three rules of the name splitter on a cleaned title t: split at the
\* first separator; else at the first space; else no brand.
SplitByRules(t, anyCase) ==
    LET seps == {i \in 1..(Len(t) - 2) : IsSeparator(SubSeq(t, i, i + 2), anyCase)}
        spaces == {i \in DOMAIN t : t[i] = " "}
    IN  IF t = None THEN <<None, None>>
        ELSE IF seps # {}
        THEN <<CleanText(SubSeq(t, 1, Least(seps) - 1)),
               CleanText(SubSeq(t, Least(seps) + 3, Len(t)))>>
        ELSE IF spaces # {}
        THEN <<SubSeq(t, 1, Least(spaces) - 1),
               SubSeq(t, Least(spaces) + 1, Len(t))>>
        ELSE <<None, t>>

\* C6 as stated: brand and name follow the three rules with the separators
\* ' - ' and ' by ' in any letter case.
C6_SplitAnyCaseBy ==
    TitleResolved
        => <<result["brand"], result["name"]>>
               = SplitByRules(ResolvedTitle, TRUE)

\* C6 amended: brand and name follow the three rules with the separators
\* ' - ' and lower-case ' by ' only; ' By ' and ' BY ' are not separators.
C6_SplitLowerCaseBy ==
    TitleResolved
        => <<result["brand"], result["name"]>>
               = SplitByRules(ResolvedTitle, FALSE)

C6_Witness ==
    /\ TitleResolved
    /\ ResolvedTitle = <<"Padron", " ", "BY", " ", "Padron">>
    /\ result["brand"] = <<"Padron">>
    /\ result["name"] = <<"BY", " ", "Padron">>

\* The first entry of list that occurs in text in any letter case, or None.
FirstInAnyCase(list, text) ==
    IF \A i \in DOMAIN list : ~Contains(Lower(text), Lower(list[i])) THEN None
    ELSE list[CHOOSE i \in DOMAIN list :
                 /\ Contains(Lower(text), Lower(list[i]))
                 /\ \A j \in 1..(i - 1) : ~Contains(Lower(text), Lower(list[j]))]

\* C7: in the review-site and first retailer extractors, once a candidate
\* whose text holds the 'strength' keyword and a listed strength, in any
\* letter case, has been scanned, `strength` is the first such entry of
\* (Mild, Medium, Full).
C7_StrengthAnyCase ==
    (variant \in {"ReviewSite", "RetailerA"} /\ idx >= 1 /\ ~raised)
        => LET t == details[idx].text
               s == FirstInAnyCase(<< <<"Mild">>, <<"Medium">>, <<"Full">> >>, t)
           IN  (Contains(Lower(t), <<"strength">>) /\ s # None)
                   => ("strength" \in DOMAIN result /\ result["strength"] = s)

Yield(v, e, k) ==
    LET r == ScanOne(v, << >>, <<e>>, 1)
    IN  IF k \in DOMAIN r THEN r[k] ELSE None

ScannedKeys == {"length", "ring_gauge", "size", "strength", "origin", "wrapper"}

\* C9: in the review-site and first retailer extractors, after any number of
\* candidates, each key holds the value of the last scanned candidate that
\* yielded one, and is unset when none did; a candidate that yields no value
\* for a key leaves it as it was.
C9_LastYieldWins ==
    (variant \in {"ReviewSite", "RetailerA"} /\ ~raised)
        => \A k \in ScannedKeys :
              LET yielding == {j \in 1..idx : Yield(variant, details[j], k) # None}
              IN  IF yielding = {} THEN k \notin DOMAIN result
                  ELSE /\ k \in DOMAIN result
                       /\ result[k] = Yield(variant, details[Greatest(yielding)], k)

\* C10: the generic extractor sets `strength` from the whole text of the
\* document, in any letter case and with no keyword: Mild if 'mild' occurs,
\* else Medium-Full if 'medium-full' occurs, else Medium, else Full, else it
\* sets none.
C10_GenericStrengthOrder ==
    (variant = "Generic" /\ pc \in {"return", "done"} /\ soup # << >>)
        => LET t == Lower(DocumentText(soup))
               expected ==
                   IF Contains(t, <<"mild">>) THEN <<"Mild">>
                   ELSE IF Contains(t, <<"medium", "-", "full">>)
                        THEN <<"Medium", "-", "Full">>
                   ELSE IF Contains(t, <<"medium">>) THEN <<"Medium">>
                   ELSE IF Contains(t, <<"full">>) THEN <<"Full">>
                   ELSE None
           IN  IF expected = None THEN "strength" \notin DOMAIN result
               ELSE /\ "strength" \in DOMAIN result
                    /\ result["strength"] = expected

C10_Witness ==
    /\ variant = "Generic"
    /\ outcome = "record"
    /\ DocumentText(soup) = <<"Medium", "-", "Full">>
    /\ ret["strength"] = <<"Medium", "-", "Full">>

====
